---- MODULE Spec2Model ----
(***************************************************************************)
(* Model of blur.c: a P3 PPM reader, a 5x5 weighted blur with clamp-to-edge *)
(* sampling, and a P3 writer.  The input file is a sequence of one-charac-  *)
(* ter strings; one action per statement group of main().                   *)
(***************************************************************************)
EXTENDS Integers, Sequences, FiniteSets, TLC

VARIABLES argc, in, pos, pc, magic, w, h, maxv, nvals, ub, allocd,
          pix, outpix, acc, outOpened, outtext, count, ioerr, status, errmsg

vars == <<argc, in, pos, pc, magic, w, h, maxv, nvals, ub, allocd,
          pix, outpix, acc, outOpened, outtext, count, ioerr, status, errmsg>>

(* ------------------------------ bounds --------------------------------- *)
MaxDim == 5          \* uniform images: width, height in 1..MaxDim
MaxBright == 3       \* single-bright-value images: width, height in 1..MaxBright
MaxSmallArea == 2    \* exhaustive two-valued images: width*height <= MaxSmallArea

(* --------------------------- characters -------------------------------- *)
DigitChars == <<"0", "1", "2", "3", "4", "5", "6", "7", "8", "9">>

IsDigit(c) == \E d \in 1..10 : DigitChars[d] = c

DigitVal(c) == (CHOOSE d \in 1..10 : DigitChars[d] = c) - 1

\* isspace() in the C locale, restricted to the characters TLA+ can write
IsSpace(c) == c \in {" ", "\t", "\n", "\r", "\f"}

EOF == -1

(* ------------------------- read_int (23-50) ---------------------------- *)
\* inner loop of line 35: index of the first "\n" at or after i, 0 when the
\* stream ends first
RECURSIVE SkipComment(_, _)
SkipComment(s, i) ==
    IF i > Len(s) THEN 0
    ELSE IF s[i] = "\n" THEN i
    ELSE SkipComment(s, i + 1)

\* mutant: the comment skip stops right after the '#'
RECURSIVE SkipToToken_OnlyHash(_, _)
SkipToToken_OnlyHash(s, i) ==
    IF i > Len(s) THEN 0
    ELSE IF IsSpace(s[i]) THEN SkipToToken_OnlyHash(s, i + 1)
    ELSE IF s[i] = "#" THEN SkipToToken_OnlyHash(s, i + 1)
    ELSE i

\* loop of lines 27-43: index of the first character of the next token,
\* 0 when end of file is reached first (read_int returns 0)
RECURSIVE SkipToToken(_, _)
SkipToToken(s, i) ==
    IF i > Len(s) THEN 0
    ELSE IF IsSpace(s[i]) THEN SkipToToken(s, i + 1)
    ELSE IF s[i] = "#" THEN
        LET j == SkipComment(s, i + 1)
        IN  IF j = 0 THEN 0 ELSE SkipToToken(s, j + 1)
    ELSE i

\* the digits fscanf("%d") consumes from index i: value so far v, next index
RECURSIVE ScanDigits(_, _, _)
ScanDigits(s, i, v) ==
    IF i <= Len(s) /\ IsDigit(s[i])
    THEN ScanDigits(s, i + 1, v * 10 + DigitVal(s[i]))
    ELSE [val |-> v, pos |-> i]

\* fscanf(fp, "%d", out) at a non-space character: optional sign, then a
\* non-empty run of digits; n is the return value of fscanf
ScanInt(s, i) ==
    LET signed == i <= Len(s) /\ s[i] \in {"-", "+"}
        j      == IF signed THEN i + 1 ELSE i
        d      == ScanDigits(s, j, 0)
    IN  IF d.pos = j
        THEN [n |-> 0, val |-> 0, pos |-> j]
        ELSE [n |-> 1,
              val |-> IF signed /\ s[i] = "-" THEN 0 - d.val ELSE d.val,
              pos |-> d.pos]

\* read_int: ret = "int" an int was read (the C function returns 1), "eof"
\* end of file (it returns 0), "bad" the error_exit of line 47
read_int(s, i) ==
    LET t == SkipToToken(s, i)
    IN  IF t = 0 THEN [ret |-> "eof", val |-> 0, pos |-> Len(s) + 1]
        ELSE LET r == ScanInt(s, t)
             IN  IF r.n # 1 THEN [ret |-> "bad", val |-> 0, pos |-> r.pos]
                 ELSE [ret |-> "int", val |-> r.val, pos |-> r.pos]

(* --------------------------- fscanf("%2s") ----------------------------- *)
RECURSIVE SkipSpace(_, _)
SkipSpace(s, i) ==
    IF i <= Len(s) /\ IsSpace(s[i]) THEN SkipSpace(s, i + 1) ELSE i

\* fscanf(in, "%2s", magic): skip white space, then at most two
\* non-space characters
ScanMagic(s) ==
    LET a == SkipSpace(s, 1)
        b == IF a <= Len(s) /\ a + 1 <= Len(s) /\ ~IsSpace(s[a + 1])
             THEN a + 1 ELSE a
    IN  IF a > Len(s) THEN [n |-> EOF, str |-> <<>>, pos |-> a]
        ELSE [n |-> 1, str |-> SubSeq(s, a, b), pos |-> b + 1]

(* ------------------------------ clamp ---------------------------------- *)
\* mutant: out-of-range coordinates wrap around instead of clamping
clamp_Wrap(v, lo, hi) == lo + ((v - lo) % (hi - lo + 1))

clamp(v, lo, hi) ==
    IF v < lo THEN lo
    ELSE IF v > hi THEN hi
    ELSE v

(* ------------------------- kernel (98-106) ----------------------------- *)
\* mutant: centre weight 8, so the weights no longer sum to KSUM
K_BadCentre ==
    << <<1, 2, 3, 2, 1>>,
       <<2, 4, 6, 4, 2>>,
       <<3, 6, 8, 6, 3>>,
       <<2, 4, 6, 4, 2>>,
       <<1, 2, 3, 2, 1>> >>

K ==
    << <<1, 2, 3, 2, 1>>,
       <<2, 4, 6, 4, 2>>,
       <<3, 6, 9, 6, 3>>,
       <<2, 4, 6, 4, 2>>,
       <<1, 2, 3, 2, 1>> >>

KSUM == 81

\* lines 112-121: the accumulator of output element (x, y, ch) after the
\* first n of the 25 kernel taps, in loop order (ky outer, kx inner).
\* p is the input buffer, 1-based: C index idx is p[idx + 1]
RECURSIVE Accumulate(_, _, _, _, _, _, _)
Accumulate(p, ww, hh, x, y, ch, n) ==
    IF n = 0 THEN 0
    ELSE LET ky   == ((n - 1) \div 5) - 2
             kx   == ((n - 1) % 5) - 2
             sy   == clamp(y + ky, 0, hh - 1)
             sx   == clamp(x + kx, 0, ww - 1)
             kval == K[ky + 3][kx + 3]
             idx  == (sy * ww + sx) * 3 + ch
         IN  Accumulate(p, ww, hh, x, y, ch, n - 1) + kval * p[idx + 1]

\* line 124: rounded divide by 81
Normalize(a) == (a + (KSUM \div 2)) \div KSUM

(* --------------------- 64-bit product (line 82) ------------------------ *)
\* A 64-bit quantity is a sequence of 8 base-256 limbs, least significant
\* first.
Limbs32(n) ==
    << n % 256, (n \div 256) % 256, (n \div 65536) % 256, n \div 16777216,
       0, 0, 0, 0 >>

\* column k (0-based) of the schoolbook product of two limb sequences
RECURSIVE ColumnSum(_, _, _, _)
ColumnSum(a, b, k, i) ==
    IF i > k THEN 0
    ELSE (IF i < 8 /\ k - i < 8 THEN a[i + 1] * b[k - i + 1] ELSE 0)
         + ColumnSum(a, b, k, i + 1)

\* limbs k..7 of a * b given the carry into column k
RECURSIVE MulFrom(_, _, _, _)
MulFrom(a, b, k, carry) ==
    IF k = 8 THEN <<>>
    ELSE LET t == ColumnSum(a, b, k, 0) + carry
         IN  <<t % 256>> \o MulFrom(a, b, k + 1, t \div 256)

MulLimbs(a, b) == MulFrom(a, b, 0, 0)

\* (long long)w * (long long)h * 3LL as an unbounded natural reduced to 64
\* bits; w, h in 1..INT_MAX so the true product is below 2^64
Prod64(ww, hh) ==
    MulLimbs(MulLimbs(Limbs32(ww), Limbs32(hh)), Limbs32(3))

\* the true product does not fit a signed 64-bit integer: bit 63 is set
Overflows64(l) == l[8] >= 128

\* l > 200000000, for l without bit 63
NVALS_LIMIT == 200000000

ExceedsLimit(l) ==
    \/ l[5] # 0 \/ l[6] # 0 \/ l[7] # 0 \/ l[8] # 0
    \/ l[4] >= 128
    \/ l[1] + l[2] * 256 + l[3] * 65536 + l[4] * 16777216 > NVALS_LIMIT

\* value of l as an int, for l that passed the limit check
LimbsToInt(l) == l[1] + l[2] * 256 + l[3] * 65536 + l[4] * 16777216

(* --------------------------- "%d" output ------------------------------- *)
RECURSIVE DecDigits(_)
DecDigits(n) ==
    IF n < 10 THEN <<DigitChars[n + 1]>>
    ELSE DecDigits(n \div 10) \o <<DigitChars[(n % 10) + 1]>>

\* printf("%d", n)
Dec(n) == IF n < 0 THEN <<"-">> \o DecDigits(0 - n) ELSE DecDigits(n)

per_line == 15

\* mutant: height and width written in the wrong order
HeaderText_Swapped(ww, hh, mm) ==
    <<"P", "3", "\n">> \o Dec(hh) \o <<" ">> \o Dec(ww) \o <<"\n">>
        \o Dec(mm) \o <<"\n">>

\* line 136: "P3\n%d %d\n%d\n"
HeaderText(ww, hh, mm) ==
    <<"P", "3", "\n">> \o Dec(ww) \o <<" ">> \o Dec(hh) \o <<"\n">>
        \o Dec(mm) \o <<"\n">>

\* mutant: a line break after every 16th value
Separator_Sixteen(cnt) == IF cnt % (per_line + 1) = 0 THEN <<"\n">> ELSE <<" ">>

\* lines 144-145: what follows the cnt-th value
Separator(cnt) == IF cnt % per_line = 0 THEN <<"\n">> ELSE <<" ">>

(* ------------------------- loop conditions ----------------------------- *)
\* mutant: the upper bound of the range check is dropped
PixelInRange_NoUpper(v, m) == ~(v < 0)

\* line 93, negated
PixelInRange(v, m) == ~(v < 0 \/ v > m)

\* mutant: the blur stops one element early
BlurDone_Early(k, n) == k >= n - 1

\* lines 109-111: all of y, x, ch have run through, k elements stored
BlurDone(k, n) == k >= n

(* ------------------------------ inputs --------------------------------- *)
MaxVals == {1, 255, 65535}

\* values separated by one space, the line ended by a newline
RECURSIVE PixelText(_, _)
PixelText(vals, i) ==
    IF i > Len(vals) THEN <<"\n">>
    ELSE (IF i = 1 THEN <<>> ELSE <<" ">>) \o Dec(vals[i]) \o PixelText(vals, i + 1)

ImageFile(ww, hh, mm, vals) == HeaderText(ww, hh, mm) \o PixelText(vals, 1)

\* every channel value equal
UniformImages ==
    UNION { { ImageFile(ww, hh, mm, [i \in 1..(3 * ww * hh) |-> v])
                : v \in {0, 1, mm \div 2, mm} }
            : ww \in 1..MaxDim, hh \in 1..MaxDim, mm \in MaxVals }

\* one non-zero channel value
BrightImages ==
    UNION { { ImageFile(ww, hh, 255,
                        [i \in 1..(3 * ww * hh) |-> IF i = k THEN v ELSE 0])
                : k \in 1..(3 * ww * hh), v \in {100, 255} }
            : ww \in 1..MaxBright, hh \in 1..MaxBright }

\* every image of a small area over the two extreme values
SmallShapes ==
    { d \in (1..MaxSmallArea) \X (1..MaxSmallArea) : d[1] * d[2] <= MaxSmallArea }

SmallImages ==
    UNION { { ImageFile(d[1], d[2], mm, vals)
                : vals \in [1..(3 * d[1] * d[2]) -> {0, mm}] }
            : d \in SmallShapes, mm \in {65535} }

\* headers around the size limit and around the range of long long
BigDims ==
    {1, 8164, 8165, 66666666, 66666667, 1431655766, 1431655767, 2147483647}

BigHeaders ==
    { HeaderText(ww, hh, mm) \o <<"0", " ", "0", " ", "0", "\n">>
        : ww \in BigDims, hh \in BigDims, mm \in {255, 65536} }

\* a 1x1 image, one separator and one token of which are replaced
BaseTokens == << <<"1">>, <<"1">>, <<"5">>, <<"0">>, <<"3">>, <<"5">> >>

SepKinds ==
    { <<" ">>, <<"\n">>, <<>>, <<"#", "c", "\n">>, <<" ", "#", "c", "\n">>,
      <<"#", "c", "\n", "\t">>, <<"#", "c">>, <<"\r", "#", "#", "\n", "#", "\n">> }

TokKinds ==
    { <<"x">>, <<"1", "x">>, <<"-">>, <<"-", "1">>, <<"+", "2">>, <<"9">>,
      <<"0">>, <<"1", "2">> }

RECURSIVE TokenText(_, _, _)
TokenText(toks, seps, i) ==
    IF i > Len(toks) THEN <<>>
    ELSE toks[i] \o seps[i] \o TokenText(toks, seps, i + 1)

TokenFiles ==
    { <<"P", "3">> \o s0 \o
      TokenText([BaseTokens EXCEPT ![tp] = tk],
                [[i \in 1..6 |-> <<" ">>] EXCEPT ![sp] = sk], 1)
        : s0 \in {<<"\n">>, <<"#", "c", "\n">>}, tp \in 1..6, tk \in TokKinds,
          sp \in 1..6, sk \in SepKinds }

TagFiles ==
    { <<>>, <<" ", "\n">>, <<"P">>, <<"P", "6", "\n", "1", " ", "1">>,
      <<"\n", "P", "3">>, <<"P", "3", "1", " ", "1", " ", "5", " ", "0", " ",
        "0", " ", "0">> }

Inputs ==
    UniformImages \cup BrightImages \cup SmallImages \cup BigHeaders
        \cup TokenFiles \cup TagFiles

(* --------------------------- error exits ------------------------------- *)
\* error_exit / error_errno (7-15): message on stderr, exit(1)
ErrorExit(msg) ==
    /\ pc' = "exit"
    /\ status' = 1
    /\ errmsg' = msg

(* ------------------------ header (lines 76-77) ------------------------- *)
\* !read_int(&w) || !read_int(&h) || !read_int(&maxv), left to right with
\* short circuit; err is "" when all three were read
ReadHeaderInts(s, i) ==
    LET r1 == read_int(s, i)
        r2 == read_int(s, r1.pos)
        r3 == read_int(s, r2.pos)
        none == [err |-> "", w |-> 0, h |-> 0, maxv |-> 0, pos |-> i]
    IN  IF r1.ret = "bad" THEN [none EXCEPT !.err = "Bad integer in file"]
        ELSE IF r1.ret = "eof"
            THEN [none EXCEPT !.err = "Missing width/height/maxval"]
        ELSE IF r2.ret = "bad"
            THEN [none EXCEPT !.err = "Bad integer in file", !.w = r1.val]
        ELSE IF r2.ret = "eof"
            THEN [none EXCEPT !.err = "Missing width/height/maxval", !.w = r1.val]
        ELSE IF r3.ret = "bad"
            THEN [none EXCEPT !.err = "Bad integer in file", !.w = r1.val,
                              !.h = r2.val]
        ELSE IF r3.ret = "eof"
            THEN [none EXCEPT !.err = "Missing width/height/maxval",
                              !.w = r1.val, !.h = r2.val]
        ELSE [err |-> "", w |-> r1.val, h |-> r2.val, maxv |-> r3.val,
              pos |-> r3.pos]

\* lines 79-83 on a header: the error message, "" when the header passes,
\* "overflow" when w * h * 3 does not fit a long long (undefined behaviour)
HeaderCheck(ww, hh, mm) ==
    IF ww <= 0 \/ hh <= 0 THEN "Width and height must be positive"
    ELSE IF mm <= 0 \/ mm > 65535 THEN "Max color value must be 1..65535"
    ELSE IF Overflows64(Prod64(ww, hh)) THEN "overflow"
    ELSE IF ExceedsLimit(Prod64(ww, hh)) THEN "Image too large"
    ELSE ""

(* ------------------------------ actions -------------------------------- *)
Init ==
    /\ argc \in {2, 3, 4}
    /\ in \in (IF argc = 3 THEN Inputs ELSE {<<>>})
    /\ pos = 1
    /\ pc = "start"
    /\ magic = <<>>
    /\ w = 0
    /\ h = 0
    /\ maxv = 0
    /\ nvals = 0
    /\ ub = FALSE
    /\ allocd = FALSE
    /\ pix = <<>>
    /\ outpix = <<>>
    /\ acc = 0
    /\ outOpened = FALSE
    /\ outtext = <<>>
    /\ count = 0
    /\ ioerr = FALSE
    /\ status = -1
    /\ errmsg = ""

\* lines 59-62
CheckArgs ==
    /\ pc = "start"
    /\ IF argc # 3
       THEN /\ pc' = "exit"
            /\ status' = 2
            /\ errmsg' = "Usage: blur input.ppm output.ppm"
       ELSE /\ pc' = "open_in"
            /\ UNCHANGED <<status, errmsg>>
    /\ UNCHANGED <<argc, in, pos, magic, w, h, maxv, nvals, ub, allocd, pix,
                   outpix, acc, outOpened, outtext, count, ioerr>>

\* lines 67-68: fopen of the input may fail
OpenIn ==
    /\ pc = "open_in"
    /\ \E ok \in BOOLEAN :
        IF ok THEN pc' = "magic" /\ UNCHANGED <<status, errmsg>>
        ELSE ErrorExit("Could not open input file")
    /\ UNCHANGED <<argc, in, pos, magic, w, h, maxv, nvals, ub, allocd, pix,
                   outpix, acc, outOpened, outtext, count, ioerr>>

\* lines 71-73
ReadMagic ==
    /\ pc = "magic"
    /\ LET r == ScanMagic(in)
       IN  IF r.n # 1
           THEN ErrorExit("Could not read PPM header") /\ UNCHANGED <<pos, magic>>
           ELSE /\ magic' = r.str
                /\ pos' = r.pos
                /\ IF r.str # <<"P", "3">>
                   THEN ErrorExit("Only P3 PPM format is supported")
                   ELSE pc' = "header" /\ UNCHANGED <<status, errmsg>>
    /\ UNCHANGED <<argc, in, w, h, maxv, nvals, ub, allocd, pix, outpix, acc,
                   outOpened, outtext, count, ioerr>>

\* lines 76-77
ReadHeader ==
    /\ pc = "header"
    /\ LET r == ReadHeaderInts(in, pos)
       IN  /\ w' = r.w
           /\ h' = r.h
           /\ maxv' = r.maxv
           /\ pos' = r.pos
           /\ IF r.err # "" THEN ErrorExit(r.err)
              ELSE pc' = "validate" /\ UNCHANGED <<status, errmsg>>
    /\ UNCHANGED <<argc, in, magic, nvals, ub, allocd, pix, outpix, acc,
                   outOpened, outtext, count, ioerr>>

\* lines 79-83.  When w * h * 3 overflows long long the behaviour is
\* undefined: the product wraps to a negative value and is rejected, the
\* multiplication traps (-ftrapv), or the compiler, knowing w > 0 and h > 0,
\* drops the test nvals <= 0 and the negative value passes.
Validate ==
    /\ pc = "validate"
    /\ LET e == HeaderCheck(w, h, maxv)
       IN  IF e = "overflow"
           THEN \E outcome \in {"wrap", "trap", "assume"} :
                  CASE outcome = "wrap" ->
                         ErrorExit("Image too large") /\ UNCHANGED <<nvals, ub>>
                    [] outcome = "trap" ->
                         /\ pc' = "exit" /\ status' = 134 /\ errmsg' = ""
                         /\ UNCHANGED <<nvals, ub>>
                    [] outcome = "assume" ->
                         /\ pc' = "alloc" /\ ub' = TRUE /\ nvals' = -1
                         /\ UNCHANGED <<status, errmsg>>
           ELSE IF e # ""
           THEN ErrorExit(e) /\ UNCHANGED <<nvals, ub>>
           ELSE /\ nvals' = LimbsToInt(Prod64(w, h))
                /\ pc' = "alloc"
                /\ UNCHANGED <<ub, status, errmsg>>
    /\ UNCHANGED <<argc, in, pos, magic, w, h, maxv, allocd, pix, outpix, acc,
                   outOpened, outtext, count, ioerr>>

\* lines 85-87: either malloc may fail.  After the overflow nvals is
\* negative, the read loop is skipped and the blur reads far outside the
\* buffer: the process is killed.
Alloc ==
    /\ pc = "alloc"
    /\ allocd' = TRUE
    /\ \E ok \in BOOLEAN :
        IF ~ok THEN ErrorExit("Out of memory")
        ELSE IF ub THEN pc' = "exit" /\ status' = 139 /\ errmsg' = ""
        ELSE pc' = "read" /\ UNCHANGED <<status, errmsg>>
    /\ UNCHANGED <<argc, in, pos, magic, w, h, maxv, nvals, ub, pix, outpix,
                   acc, outOpened, outtext, count, ioerr>>

\* lines 90-96: one iteration of the read loop; fclose after the last
ReadPixel ==
    /\ pc = "read"
    /\ LET r == read_int(in, pos)
       IN  IF r.ret = "bad"
           THEN ErrorExit("Bad integer in file") /\ UNCHANGED <<pix, pos>>
           ELSE IF r.ret = "eof"
           THEN ErrorExit("Unexpected EOF in pixel data") /\ UNCHANGED <<pix, pos>>
           ELSE IF ~PixelInRange(r.val, maxv)
           THEN ErrorExit("Pixel value out of range") /\ pos' = r.pos
                /\ UNCHANGED pix
           ELSE /\ pix' = Append(pix, r.val)
                /\ pos' = r.pos
                /\ pc' = IF Len(pix) + 1 < nvals THEN "read" ELSE "blur"
                /\ UNCHANGED <<status, errmsg>>
    /\ UNCHANGED <<argc, in, magic, w, h, maxv, nvals, ub, allocd, outpix, acc,
                   outOpened, outtext, count, ioerr>>

\* lines 109-128: one iteration of the innermost (y, x, ch) loop body; the
\* loops visit the elements in the order of out_idx
BlurPixel ==
    /\ pc = "blur"
    /\ LET k   == Len(outpix)
           y   == k \div (3 * w)
           x   == (k \div 3) % w
           ch  == k % 3
           a   == Accumulate(pix, w, h, x, y, ch, 25)
           val == clamp(Normalize(a), 0, maxv)
       IN  /\ acc' = a
           /\ outpix' = Append(outpix, val)
           /\ pc' = IF BlurDone(k + 1, nvals) THEN "open_out" ELSE "blur"
    /\ UNCHANGED <<argc, in, pos, magic, w, h, maxv, nvals, ub, allocd, pix,
                   outOpened, outtext, count, ioerr, status, errmsg>>

\* lines 133-134: fopen of the output may fail
OpenOut ==
    /\ pc = "open_out"
    /\ \E ok \in BOOLEAN :
        IF ok THEN /\ outOpened' = TRUE
                   /\ pc' = "write_hdr"
                   /\ UNCHANGED <<status, errmsg>>
        ELSE ErrorExit("Could not open output file") /\ UNCHANGED outOpened
    /\ UNCHANGED <<argc, in, pos, magic, w, h, maxv, nvals, ub, allocd, pix,
                   outpix, acc, outtext, count, ioerr>>

\* lines 136-140: the result of fprintf is not looked at.  outtext is what
\* the program hands to the stream, ioerr whether a write has failed
WriteHeader ==
    /\ pc = "write_hdr"
    /\ outtext' = HeaderText(w, h, maxv)
    /\ count' = 0
    /\ \E ok \in BOOLEAN : ioerr' = (ioerr \/ ~ok)
    /\ pc' = "write"
    /\ UNCHANGED <<argc, in, pos, magic, w, h, maxv, nvals, ub, allocd, pix,
                   outpix, acc, outOpened, status, errmsg>>

\* lines 141-146: one iteration of the write loop
WriteValue ==
    /\ pc = "write"
    /\ outtext' = outtext \o Dec(outpix[count + 1]) \o Separator(count + 1)
    /\ count' = count + 1
    /\ \E ok \in BOOLEAN : ioerr' = (ioerr \/ ~ok)
    /\ pc' = IF count + 1 < nvals THEN "write" ELSE "finish"
    /\ UNCHANGED <<argc, in, pos, magic, w, h, maxv, nvals, ub, allocd, pix,
                   outpix, acc, outOpened, status, errmsg>>

\* lines 147-152: the closing newline, fclose (result not looked at),
\* return 0
Finish ==
    /\ pc = "finish"
    /\ outtext' = IF count % per_line # 0 THEN outtext \o <<"\n">> ELSE outtext
    /\ \E ok \in BOOLEAN : ioerr' = (ioerr \/ ~ok)
    /\ pc' = "exit"
    /\ status' = 0
    /\ UNCHANGED <<argc, in, pos, magic, w, h, maxv, nvals, ub, allocd, pix,
                   outpix, acc, outOpened, count, errmsg>>

Next ==
    \/ CheckArgs
    \/ OpenIn
    \/ ReadMagic
    \/ ReadHeader
    \/ Validate
    \/ Alloc
    \/ ReadPixel
    \/ BlurPixel
    \/ OpenOut
    \/ WriteHeader
    \/ WriteValue
    \/ Finish

Spec == Init /\ [][Next]_vars

(* ------------------- the reader as a function -------------------------- *)
\* the read loop of lines 90-95 from index i with n values still to read
RECURSIVE LoadPixels(_, _, _, _, _)
LoadPixels(s, i, n, mm, got) ==
    IF n = 0 THEN [err |-> "", pix |-> got]
    ELSE LET r == read_int(s, i)
         IN  IF r.ret = "bad" THEN [err |-> "Bad integer in file", pix |-> got]
             ELSE IF r.ret = "eof"
                 THEN [err |-> "Unexpected EOF in pixel data", pix |-> got]
             ELSE IF ~PixelInRange(r.val, mm)
                 THEN [err |-> "Pixel value out of range", pix |-> got]
             ELSE LoadPixels(s, r.pos, n - 1, mm, Append(got, r.val))

\* lines 71-95 applied to a whole file: the error message or the image
ParseFile(s) ==
    LET m    == ScanMagic(s)
        hd   == ReadHeaderInts(s, m.pos)
        e    == HeaderCheck(hd.w, hd.h, hd.maxv)
        fail == [err |-> "", w |-> 0, h |-> 0, maxv |-> 0, pix |-> <<>>]
    IN  IF m.n # 1 THEN [fail EXCEPT !.err = "Could not read PPM header"]
        ELSE IF m.str # <<"P", "3">>
            THEN [fail EXCEPT !.err = "Only P3 PPM format is supported"]
        ELSE IF hd.err # "" THEN [fail EXCEPT !.err = hd.err]
        ELSE IF e # "" THEN [fail EXCEPT !.err = e]
        ELSE LET l == LoadPixels(s, hd.pos, LimbsToInt(Prod64(hd.w, hd.h)),
                                 hd.maxv, <<>>)
             IN  IF l.err # "" THEN [fail EXCEPT !.err = l.err]
                 ELSE [err |-> "", w |-> hd.w, h |-> hd.h, maxv |-> hd.maxv,
                       pix |-> l.pix]

(* ============================== claims ================================= *)
\* the messages of the errors found while parsing or validating the input
ParseErrors ==
    { "Could not read PPM header", "Only P3 PPM format is supported",
      "Missing width/height/maxval", "Bad integer in file",
      "Width and height must be positive", "Max color value must be 1..65535",
      "Image too large", "Pixel value out of range",
      "Unexpected EOF in pixel data" }

\* C1: a run that ends in an error of parsing or validation has never opened
\* or written the output and exits non-zero; the output is opened only after
\* all width*height*3 values are loaded and all of them are blurred.
C1_NoPartialOutput ==
    /\ (pc = "exit" /\ errmsg \in ParseErrors)
          => (~outOpened /\ outtext = <<>> /\ status # 0)
    /\ outOpened
          => (nvals = w * h * 3 /\ Len(pix) = nvals /\ Len(outpix) = nvals)

\* a run that had loaded part of the pixels when it met a value out of range
C1_Witness ==
    /\ pc = "exit"
    /\ errmsg = "Pixel value out of range"
    /\ Len(pix) > 0
    /\ ~outOpened

\* C2: a run in which a write to the output (or its close) failed exits
\* non-zero with a message on the error stream.
C2_IOFailureFatal ==
    (pc = "exit" /\ ioerr) => (status # 0 /\ errmsg # "")

\* width * height * 3 > 200000000, without forming the product
TooLarge(ww, hh) == hh > 66666666 \div ww

\* the header has been read and has passed the checks of lines 79-80
HeaderAccepted ==
    /\ pc \notin {"start", "open_in", "magic", "header", "validate"}
    /\ w > 0
    /\ h > 0
    /\ maxv >= 1
    /\ maxv <= 65535

\* C3: a valid header whose width*height*3 exceeds 200000000 ends the run with
\* "Image too large" before any allocation and before any pixel is read, for
\* all positive 32-bit width and height; a header within the limit is never
\* rejected as too large.
C3_TooLargeRejected ==
    HeaderAccepted =>
        IF TooLarge(w, h)
        THEN pc = "exit" /\ errmsg = "Image too large" /\ ~allocd /\ pix = <<>>
        ELSE errmsg # "Image too large"

\* a run in which the multiplication of line 82 overflows
C3_Witness ==
    /\ pc \in {"validate", "exit"}
    /\ w = 2147483647
    /\ h = 2147483647
    /\ maxv = 255

(* ---- the blur as the claims state it, independent of the loops above ---- *)
Abs(n) == IF n < 0 THEN 0 - n ELSE n

Min(a, b) == IF a < b THEN a ELSE b

Max(a, b) == IF a > b THEN a ELSE b

\* weight of offset (kx, ky): rows and columns 1 2 3 2 1, multiplied
RefWeight(kx, ky) == (3 - Abs(kx)) * (3 - Abs(ky))

\* the input value sampled for (x, y, c) at offset (kx, ky), edge repeated
RefSample(kx, ky, x, y, c) ==
    pix[(Min(Max(y + ky, 0), h - 1) * w + Min(Max(x + kx, 0), w - 1)) * 3 + c + 1]

RECURSIVE RefColumnSum(_, _, _, _, _)
RefColumnSum(ky, kx, x, y, c) ==
    IF kx > 2 THEN 0
    ELSE RefWeight(kx, ky) * RefSample(kx, ky, x, y, c)
         + RefColumnSum(ky, kx + 1, x, y, c)

RECURSIVE RefSum(_, _, _, _)
RefSum(ky, x, y, c) ==
    IF ky > 2 THEN 0
    ELSE RefColumnSum(ky, -2, x, y, c) + RefSum(ky + 1, x, y, c)

RefValue(x, y, c) == (RefSum(-2, x, y, c) + 40) \div 81

\* the value at flat index i (1-based) is the only non-zero input value
OnlyNonZero(i) ==
    /\ pix[i] # 0
    /\ \A j \in 1..Len(pix) : j # i => pix[j] = 0

\* C4: when the blur is complete, the output value at flat index
\* (y*width+x)*3+c is floor((S + 40) / 81) with S the 25-term weighted sum
\* over edge-clamped samples; in a 3x3 image whose only non-zero value V sits
\* at a corner, the output at that corner is floor((36*V + 40) / 81).
C4_BlurFormula ==
    pc = "open_out" =>
        /\ Len(outpix) = w * h * 3
        /\ \A y \in 0..(h - 1) : \A x \in 0..(w - 1) : \A c \in 0..2 :
              outpix[(y * w + x) * 3 + c + 1] = RefValue(x, y, c)
        /\ (w = 3 /\ h = 3) =>
              \A y \in {0, 2} : \A x \in {0, 2} : \A c \in 0..2 :
                  LET i == (y * w + x) * 3 + c + 1
                  IN  OnlyNonZero(i) => outpix[i] = (36 * pix[i] + 40) \div 81

\* the 3x3 image with 255 in its first value, blurred: 113 at that corner
C4_Witness ==
    /\ pc = "open_out"
    /\ w = 3
    /\ h = 3
    /\ pix[1] = 255
    /\ OnlyNonZero(1)
    /\ outpix[1] = 113
    /\ outpix[4] = 57
    /\ outpix[7] = 19

Uniform(p) == \A i \in 1..Len(p) : p[i] = p[1]

\* C5: if every input value equals V, every output value equals V.
C5_UniformIdentity ==
    (pc \in {"blur", "open_out"} /\ Uniform(pix))
        => \A j \in 1..Len(outpix) : outpix[j] = pix[1]

\* uniform images at full scale, smaller than the kernel and as large
C5_Witness ==
    /\ pc = "open_out"
    /\ Uniform(pix)
    /\ pix[1] = 65535
    /\ \/ (w = 1 /\ h = 1)
       \/ (w >= 5 /\ h >= 5)

\* C6: in a run that exits 0, the text the serializer produced, read by the
\* same header parser and pixel loader, gives the width, height and max-value
\* of the input and the blurred buffer, element by element.
C6_RoundTrip ==
    (pc = "exit" /\ status = 0) =>
        ParseFile(outtext) =
            [err |-> "", w |-> w, h |-> h, maxv |-> maxv, pix |-> outpix]

\* a finished run with more than one line of values, some of several digits
C6_Witness ==
    /\ pc = "exit"
    /\ status = 0
    /\ nvals > per_line
    /\ \E i \in 1..Len(outpix) : outpix[i] >= 10
    /\ \E i \in 1..Len(outpix) : outpix[i] < 10

(* -------------------- comments and tokens of a file --------------------- *)
\* index after the comment that starts at i: after its newline, or after
\* the end of the stream
RECURSIVE CommentEnd(_, _)
CommentEnd(s, i) ==
    IF i > Len(s) THEN i
    ELSE IF s[i] = "\n" THEN i + 1
    ELSE CommentEnd(s, i + 1)

\* s from index i on, every comment (from '#' through its newline) removed
RECURSIVE StripComments(_, _)
StripComments(s, i) ==
    IF i > Len(s) THEN <<>>
    ELSE IF s[i] = "#" THEN StripComments(s, CommentEnd(s, i))
    ELSE <<s[i]>> \o StripComments(s, i + 1)

\* s from index i on, every comment replaced by one newline
RECURSIVE CommentsToNewline(_, _)
CommentsToNewline(s, i) ==
    IF i > Len(s) THEN <<>>
    ELSE IF s[i] = "#" THEN <<"\n">> \o CommentsToNewline(s, CommentEnd(s, i))
    ELSE <<s[i]>> \o CommentsToNewline(s, i + 1)

\* the reader has come to its outcome: an error of parsing or validation,
\* or the buffer complete and the blur not yet begun
ParseEnded ==
    \/ pc = "exit" /\ errmsg \in ParseErrors
    \/ pc = "blur" /\ outpix = <<>>

\* the outcome of this run is the outcome p of ParseFile on another file.
\* Where the header overflows line 82 there is no defined outcome to compare.
SameOutcome(p) ==
    IF p.err = "overflow" THEN TRUE
    ELSE IF p.err # "" THEN pc = "exit" /\ errmsg = p.err
    ELSE /\ pc = "blur"
         /\ w = p.w
         /\ h = p.h
         /\ maxv = p.maxv
         /\ pix = p.pix

\* C7 as stated: the outcome of the reader is its outcome on the same file
\* with every comment removed.
C7_CommentsStripped ==
    ParseEnded => SameOutcome(ParseFile(StripComments(in, 1)))

\* C7 as amended: the outcome of the reader is its outcome on the same file
\* with every comment replaced by a single newline.
C7_CommentsAsNewline ==
    ParseEnded => SameOutcome(ParseFile(CommentsToNewline(in, 1)))

\* a file read to the end of its pixels in which a comment directly follows
\* a digit and has been skipped
C7_Witness ==
    /\ pc = "blur"
    /\ outpix = <<>>
    /\ \E i \in 2..Len(in) :
          in[i] = "#" /\ IsDigit(in[i - 1]) /\ i < pos

\* the token that starts at i: up to the next white space, '#' or the end
RECURSIVE TokenEnd(_, _)
TokenEnd(s, i) ==
    IF i > Len(s) \/ IsSpace(s[i]) \/ s[i] = "#" THEN i
    ELSE TokenEnd(s, i + 1)

\* the tokens of s from index i on, white space and comments between them
RECURSIVE Tokens(_, _)
Tokens(s, i) ==
    IF i > Len(s) THEN <<>>
    ELSE IF IsSpace(s[i]) THEN Tokens(s, i + 1)
    ELSE IF s[i] = "#" THEN Tokens(s, CommentEnd(s, i))
    ELSE <<SubSeq(s, i, TokenEnd(s, i) - 1)>> \o Tokens(s, TokenEnd(s, i))

\* an optional sign and then digits only, at least one
IsDecimalInt(t) ==
    LET d == IF Len(t) > 0 /\ t[1] \in {"-", "+"} THEN 2 ELSE 1
    IN  /\ Len(t) >= d
        /\ \A k \in d..Len(t) : IsDigit(t[k])

\* C8: the integers of a run come from whole tokens: a run that exits 0 has
\* read 3 + width*height*3 tokens after the tag, each a valid decimal
\* integer, and a value rejected as out of range is a whole token.
C8_OnlyIntegerTokens ==
    /\ (pc = "exit" /\ status = 0) =>
          LET toks == Tokens(in, ScanMagic(in).pos)
          IN  /\ Len(toks) >= 3 + nvals
              /\ \A k \in 1..(3 + nvals) : IsDecimalInt(toks[k])
    /\ (pc = "exit" /\ errmsg = "Pixel value out of range") =>
          (pos > Len(in) \/ IsSpace(in[pos]) \/ in[pos] = "#")

\* the values of p from index i on, a newline after each that ends a line of
\* 15 or is the last, one space after each other
RECURSIVE ClaimedBody(_, _)
ClaimedBody(p, i) ==
    IF i > Len(p) THEN <<>>
    ELSE Dec(p[i])
         \o (IF i % 15 = 0 \/ i = Len(p) THEN <<"\n">> ELSE <<" ">>)
         \o ClaimedBody(p, i + 1)

\* C9 as stated: after the header, tokens of a line are separated by single
\* spaces, no line ends with a space, a newline ends every line.
C9_NoSpaceBeforeNewline ==
    (pc = "exit" /\ status = 0) =>
        outtext = <<"P", "3", "\n">> \o Dec(w) \o <<" ">> \o Dec(h) \o <<"\n">>
                    \o Dec(maxv) \o <<"\n">> \o ClaimedBody(outpix, 1)

\* the values of p from index i on, each followed by one character: a
\* newline after every 15th, a space after every other; one more newline
\* at the end of a last line of fewer than 15
RECURSIVE ActualBody(_, _)
ActualBody(p, i) ==
    IF i > Len(p) THEN (IF Len(p) % 15 # 0 THEN <<"\n">> ELSE <<>>)
    ELSE Dec(p[i])
         \o (IF i % 15 = 0 THEN <<"\n">> ELSE <<" ">>)
         \o ActualBody(p, i + 1)

\* C9 as amended: after the header every value is followed by exactly one
\* character, a newline after every 15th value and a space after every
\* other, and a last line of fewer than 15 values ends with that space and
\* one newline; the file ends with exactly one newline.
C9_Layout ==
    (pc = "exit" /\ status = 0) =>
        /\ outtext = <<"P", "3", "\n">> \o Dec(w) \o <<" ">> \o Dec(h)
                       \o <<"\n">> \o Dec(maxv) \o <<"\n">>
                       \o ActualBody(outpix, 1)
        /\ outtext[Len(outtext)] = "\n"
        /\ outtext[Len(outtext) - 1] # "\n"

\* a finished run with one full line and a shorter last line
C9_Witness ==
    /\ pc = "exit"
    /\ status = 0
    /\ nvals > 15
    /\ nvals % 15 # 0
    /\ outtext[Len(outtext) - 1] = " "

\* C10: after each blur step the accumulator is in 0..81*max_value (at most
\* 5308335), the rounded quotient is in 0..max_value and is the value stored
\* unchanged by the final clamp; every stored value is in 0..max_value.
C10_AccumulatorBound ==
    (pc \in {"blur", "open_out"} /\ Len(outpix) > 0) =>
        /\ acc >= 0
        /\ acc <= 81 * maxv
        /\ acc <= 5308335
        /\ (acc + 40) \div 81 >= 0
        /\ (acc + 40) \div 81 <= maxv
        /\ outpix[Len(outpix)] = (acc + 40) \div 81
        /\ \A i \in 1..Len(outpix) : outpix[i] >= 0 /\ outpix[i] <= maxv

\* the accumulator at its largest
C10_Witness ==
    /\ pc \in {"blur", "open_out"}
    /\ Len(outpix) > 0
    /\ maxv = 65535
    /\ acc = 5308335
    /\ outpix[Len(outpix)] = 65535

====
